---- MODULE Spec2Model ----
(***************************************************************************)
(* A model of the column-derivation pipeline of mendeleevapp:              *)
(*   datautils.add_plot_columns  (layout derivation),                      *)
(*   views.set_property, views.set_colors / views.colormap_column,         *)
(*   and the request handlers index / correlation / data of views.py.      *)
(*                                                                         *)
(* A DataFrame is a function from column names to columns; a column is a   *)
(* function from the row labels that hold a non-null value to that value.  *)
(* A row label outside a column's domain is a NaN/None cell; a column name *)
(* outside the frame's domain is a column the frame does not have.  The    *)
(* row label of an element is its atomic number.                           *)
(*                                                                         *)
(* Vertical coordinates are fixed-point numbers in units of 1/Unit, so     *)
(* that 2.5, 0.05, 0.3, 0.18 and 0.35 are the integers 250, 5, 30, 18, 35. *)
(* Property values of floating-point columns are fixed-point numbers in    *)
(* units of 1/FloatScale.                                                  *)
(***************************************************************************)
EXTENDS Integers, Sequences, FiniteSets, TLC

VARIABLES
    elements,   \* the frame handed to add_plot_columns (datautils.py:54)
    prev,       \* the frame as it was before the last application
    napply,     \* how many times add_plot_columns was applied
    df,         \* the frame set_property / set_colors work on as library calls
    df0,        \* that frame before any call
    outcome,    \* "ok", or the exception a library call raised
    hist,       \* the library calls made so far, in order
    snapshot,   \* the frame stored in neutral.pkl
    store,      \* request -> the frame object the request holds
    ref,        \* request -> the object its variable `data` names
    pc,         \* request -> position in its handler
    req         \* request -> its route and query parameters

vars == <<elements, prev, napply, df, df0, outcome, hist,
          snapshot, store, ref, pc, req>>

layoutVars == <<elements, prev, napply>>
libVars == <<df, df0, outcome, hist>>
serveVars == <<snapshot, store, ref, pc, req>>

-----------------------------------------------------------------------------
(* Bounds of the model *)

MaxRows == 2        \* rows of an input table
MaxApply == 2       \* applications of add_plot_columns
MaxCalls == 2       \* library calls on one frame
NumRequests == 2    \* requests in flight

(* Constants of the program *)

Unit == 100             \* fixed-point unit of the y coordinates
FBlockX == 3            \* datautils.py:73  ... + 3
FBlockYShift == 250     \* datautils.py:74  period + 2.5
SymbolOffset == 5       \* datautils.py:78  y - 0.05
ANumberOffset == 30     \* datautils.py:79  y - 0.3
NameOffset == 18        \* datautils.py:80  y + 0.18
PropOffset == 35        \* views.py:192     y + 0.35

-----------------------------------------------------------------------------
(* DataFrame primitives *)

EmptyColumn == [i \in {} |-> 0]

\* df[col] where the column may not exist yet (an assignment creates it)
ColumnOrEmpty(frame, col) ==
    IF col \in DOMAIN frame THEN frame[col] ELSE EmptyColumn

\* the row labels of a frame
Index(frame) == DOMAIN frame["atomic_number"]

\* df[col] = values : the column is replaced (or created) as a whole
SetColumn(frame, col, values) ==
    [c \in DOMAIN frame \cup {col} |-> IF c = col THEN values ELSE frame[c]]

\* df.loc[mask, col] = values : only the rows of mask are written; the other
\* rows keep their cell, NaN when the column is new (an empty mask still
\* creates the column)
LocSet(frame, mask, col, values) ==
    LET old == ColumnOrEmpty(frame, col)
        keep == (DOMAIN old) \ mask
        new == [i \in keep \cup DOMAIN values |->
                   IF i \in DOMAIN values THEN values[i] ELSE old[i]]
    IN  SetColumn(frame, col, new)

\* Series.min() of an integer column restricted to mask (mask non-empty)
MinOver(column, mask) ==
    CHOOSE m \in {column[i] : i \in mask} :
        \A i \in mask : m <= column[i]

MaxOver(column, mask) ==
    CHOOSE m \in {column[i] : i \in mask} :
        \A i \in mask : m >= column[i]

-----------------------------------------------------------------------------
(* datautils.add_plot_columns *)

\* FBlockPeriod with the minimum taken over the whole table instead of over
\* the period's f-block rows
FBlockPeriodGlobalMin(frame, period) ==
    LET mask == {i \in Index(frame) :
                    /\ i \in DOMAIN frame["block"]
                    /\ frame["block"][i] = "f"
                    /\ frame["period"][i] = period}
        an == frame["atomic_number"]
        withX == LocSet(frame, mask, "x",
                        [i \in mask |-> an[i] - MinOver(an, Index(frame)) + FBlockX])
    IN  LocSet(withX, mask, "y",
               [i \in mask |-> frame["period"][i] * Unit + FBlockYShift])

\* FBlockPeriod shifting the current y in place (y += 2.5)
FBlockPeriodInPlace(frame, period) ==
    LET mask == {i \in Index(frame) :
                    /\ i \in DOMAIN frame["block"]
                    /\ frame["block"][i] = "f"
                    /\ frame["period"][i] = period}
        an == frame["atomic_number"]
        withX == LocSet(frame, mask, "x",
                        [i \in mask |-> an[i] - MinOver(an, mask) + FBlockX])
    IN  LocSet(withX, mask, "y",
               [i \in mask |-> frame["y"][i] + FBlockYShift])

\* lines 70-74, one iteration of the loop over period in [6, 7]
FBlockPeriod(frame, period) ==
    LET mask == {i \in Index(frame) :
                    /\ i \in DOMAIN frame["block"]
                    /\ frame["block"][i] = "f"
                    /\ frame["period"][i] = period}
        an == frame["atomic_number"]
        withX == LocSet(frame, mask, "x",
                        [i \in mask |-> an[i] - MinOver(an, mask) + FBlockX])
    IN  LocSet(withX, mask, "y",
               [i \in mask |-> frame["period"][i] * Unit + FBlockYShift])

\* lines 62-65: x from group_id where it is not null, y from period
GridPosition(frame) ==
    LET mask == DOMAIN frame["group_id"]
        withX == LocSet(frame, mask, "x", [i \in mask |-> frame["group_id"][i]])
    IN  LocSet(withX, Index(frame), "y",
               [i \in Index(frame) |-> frame["period"][i] * Unit])

\* lines 67-68
GroupNames(frame) ==
    LET mask == DOMAIN frame["group_id"]
        named == LocSet(frame, mask, "group_name",
                        [i \in mask |-> ToString(frame["group_id"][i])])
    IN  LocSet(named, Index(frame) \ mask, "group_name",
               [i \in Index(frame) \ mask |-> "f block"])

\* lines 78-80: the label rows, from the final y
LabelOffsets(frame) ==
    LET y == frame["y"]
        a == LocSet(frame, Index(frame), "y_symbol",
                    [i \in DOMAIN y |-> y[i] - SymbolOffset])
        b == LocSet(a, Index(frame), "y_anumber",
                    [i \in DOMAIN y |-> y[i] - ANumberOffset])
    IN  LocSet(b, Index(frame), "y_name",
               [i \in DOMAIN y |-> y[i] + NameOffset])

\* add_plot_columns that keeps a y it finds and shifts the f-block in place
add_plot_columns_accumulating(frame) ==
    LET grid == IF "y" \in DOMAIN frame
                THEN LocSet(frame, DOMAIN frame["group_id"], "x",
                            [i \in DOMAIN frame["group_id"] |-> frame["group_id"][i]])
                ELSE GridPosition(frame)
    IN  LabelOffsets(FBlockPeriodInPlace(
            FBlockPeriodInPlace(GroupNames(grid), 6), 7))

add_plot_columns(frame) ==
    LabelOffsets(FBlockPeriod(FBlockPeriod(GroupNames(GridPosition(frame)), 6), 7))

-----------------------------------------------------------------------------
(* Cells of the property columns.  A property column holds floating-point  *)
(* numbers (dtype float64, in units of 1/FloatScale) or strings (dtype     *)
(* object); the cell carries which.                                        *)

FloatScale == 100000000     \* fixed-point unit of the float64 values
Decimals == 4               \* views.py:189, views.py:269
LutSize == 256              \* entries of a matplotlib colormap (views.py:48)

Float(v) == [dtype |-> "float64", val |-> v]
Str(s) == [dtype |-> "object", val |-> s]

\* the columns whose cells are tagged: the selectable properties, and the
\* `property` column that set_property copies them into
PropertyNames == {"mass", "hardness"}
FloatColumns == {"hardness"}
TaggedColumns == PropertyNames \cup {"property"}

-----------------------------------------------------------------------------
(* matplotlib, as views.colormap_column uses it *)

RegisteredCmaps == {"viridis"}

\* the two ends of a registered scale; the entries between are interpolated
CmapStart(cmap) == <<68, 1, 84>>
CmapEnd(cmap) == <<253, 231, 37>>

\* Colormap.__call__ on an integer index of the lookup table
Lut(cmap, idx) ==
    [k \in 1 .. 3 |->
        CmapStart(cmap)[k]
          + ((CmapEnd(cmap)[k] - CmapStart(cmap)[k]) * idx) \div (LutSize - 1)]

\* the colour of a masked / invalid value
BadColor == <<0, 0, 0>>

HexDigits == <<"0", "1", "2", "3", "4", "5", "6", "7",
               "8", "9", "a", "b", "c", "d", "e", "f">>

Hex2(byte) == HexDigits[(byte \div 16) + 1] \o HexDigits[(byte % 16) + 1]

\* colors.rgb2hex
rgb2hex(rgb) == "#" \o Hex2(rgb[1]) \o Hex2(rgb[2]) \o Hex2(rgb[3])

\* <<q, r>> with d * n = q * D + r and 0 <= r < D, for 0 <= d <= D, without
\* forming the product d * n
RECURSIVE MulDiv(_, _, _)
MulDiv(d, n, D) ==
    IF n = 0 THEN <<0, 0>>
    ELSE IF n % 2 = 1
         THEN LET h == MulDiv(d, n - 1, D)
                  r == h[2] + d
              IN  <<h[1] + (r \div D), r % D>>
         ELSE LET h == MulDiv(d, n \div 2, D)
                  r == 2 * h[2]
              IN  <<2 * h[1] + (r \div D), r % D>>

\* colors.Normalize(vmin, vmax) followed by Colormap.__call__: the index of
\* the lookup-table entry of value v.  Normalize maps every value to 0 when
\* vmin == vmax; the colormap maps x in [0, 1) to int(x * N) and 1 to N - 1.
LutIndex(v, vmin, vmax) ==
    IF vmin = vmax THEN 0
    ELSE LET q == MulDiv(v - vmin, LutSize, vmax - vmin)[1]
         IN  IF q >= LutSize THEN LutSize - 1 ELSE q

-----------------------------------------------------------------------------
(* views.colormap_column *)

\* the numbers of a column: the cells themselves, the `val` of tagged cells
NumericValues(frame, column) ==
    IF column \in TaggedColumns
    THEN [i \in DOMAIN frame[column] |-> frame[column][i].val]
    ELSE frame[column]

HoldsStrings(frame, column) ==
    /\ column \in TaggedColumns
    /\ \E i \in DOMAIN frame[column] : frame[column][i].dtype = "object"

\* colormap_column with the scale normalised from 0 instead of df[column].min()
colormap_column_from_zero(frame, column, cmap, missing) ==
    IF cmap \notin RegisteredCmaps
    THEN [status |-> "ValueError", cmap |-> EmptyColumn]
    ELSE IF column \notin DOMAIN frame
    THEN [status |-> "KeyError", cmap |-> EmptyColumn]
    ELSE IF HoldsStrings(frame, column)
    THEN [status |-> "TypeError", cmap |-> EmptyColumn]
    ELSE
      LET values == NumericValues(frame, column)
          vmax == MaxOver(values, DOMAIN values)
          mask == Index(frame) \ DOMAIN values
          rgba == [i \in Index(frame) |->
                      IF i \in mask THEN BadColor
                      ELSE Lut(cmap, LutIndex(values[i], 0, vmax))]
          hex == [i \in Index(frame) |-> rgb2hex(rgba[i])]
      IN  [status |-> "ok",
           cmap |-> [i \in Index(frame) |-> IF i \in mask THEN missing ELSE hex[i]]]

\* lines 48-57.  get_cmap raises ValueError for a name that is not registered
\* (line 48), df[column] raises KeyError for a missing column (line 49), and
\* Normalize / to_rgba raise TypeError on a column of strings (lines 49-53).
colormap_column(frame, column, cmap, missing) ==
    IF cmap \notin RegisteredCmaps
    THEN [status |-> "ValueError", cmap |-> EmptyColumn]
    ELSE IF column \notin DOMAIN frame
    THEN [status |-> "KeyError", cmap |-> EmptyColumn]
    ELSE IF HoldsStrings(frame, column)
    THEN [status |-> "TypeError", cmap |-> EmptyColumn]
    ELSE
      LET values == NumericValues(frame, column)
          vmin == MinOver(values, DOMAIN values)
          vmax == MaxOver(values, DOMAIN values)
          mask == Index(frame) \ DOMAIN values
          rgba == [i \in Index(frame) |->
                      IF i \in mask THEN BadColor
                      ELSE Lut(cmap, LutIndex(values[i], vmin, vmax))]
          hex == [i \in Index(frame) |-> rgb2hex(rgba[i])]
      IN  [status |-> "ok",
           cmap |-> [i \in Index(frame) |-> IF i \in mask THEN missing ELSE hex[i]]]

-----------------------------------------------------------------------------
(* views.set_property and views.set_colors *)

\* lines 192-193; the parameter `decimals` is not used
set_property(frame, colname) ==
    LET mask == DOMAIN frame[colname]
        a == LocSet(frame, mask, "y_prop",
                    [i \in mask \cap DOMAIN frame["y"] |-> frame["y"][i] + PropOffset])
    IN  LocSet(a, mask, "property", [i \in mask |-> frame[colname][i]])

\* line 205: the blocks numbered in the order they first appear in the table
BlockCodes(frame) ==
    LET block == frame["block"]
        first(b) == MinOver([i \in DOMAIN block |-> i],
                            {i \in DOMAIN block : block[i] = b})
        seen == {block[i] : i \in DOMAIN block}
    IN  [i \in DOMAIN block |->
            Cardinality({b \in seen : first(b) < first(block[i])})]

\* the legend column of the modes of line 209
LegendColumn(colorby) ==
    CASE colorby = "series_id" -> "name_series"
      [] colorby = "group_id" -> "name_group"
      [] OTHER -> colorby

\* colours from column `column`, then the legend (lines 206-208, 210-217,
\* 219-220); an exception of colormap_column leaves the frame as it is
Coloured(frame, column, cmap, legend) ==
    LET dfc == colormap_column(frame, column, cmap, "#ffffff")
        withColor == SetColumn(frame, "color", dfc.cmap)
    IN  IF dfc.status # "ok" THEN [status |-> dfc.status, frame |-> frame]
        ELSE [status |-> "ok",
              frame |-> IF legend = "" THEN withColor
                        ELSE SetColumn(withColor, "legend", frame[legend])]

\* set_colors keeping the block codes in `property` instead of `temp`
set_colors_codes_in_property(frame, colorby, cmap) ==
    IF colorby = "block"
    THEN Coloured(SetColumn(frame, "property",
                            [i \in DOMAIN frame["block"] |-> Float(BlockCodes(frame)[i])]),
                  "property", cmap, "block")
    ELSE IF colorby \in {"period", "group_id", "series_id"}
    THEN Coloured(frame, colorby, cmap, LegendColumn(colorby))
    ELSE IF colorby = "property"
    THEN Coloured(frame, "property", cmap, "")
    ELSE [status |-> "ok", frame |-> frame]

\* lines 204-222
set_colors(frame, colorby, cmap) ==
    IF colorby = "block"
    THEN Coloured(SetColumn(frame, "temp", BlockCodes(frame)), "temp", cmap, "block")
    ELSE IF colorby \in {"period", "group_id", "series_id"}
    THEN Coloured(frame, colorby, cmap, LegendColumn(colorby))
    ELSE IF colorby = "property"
    THEN Coloured(frame, "property", cmap, "")
    ELSE [status |-> "ok", frame |-> frame]

-----------------------------------------------------------------------------
(* views.index, lines 268-269: the selected column rounded and made text *)

RoundUnit == FloatScale \div (10 ^ Decimals)

\* Series.round(decimals=4): to the nearest multiple of 0.0001, ties to even
Round(v) ==
    LET q == v \div RoundUnit
        r == v % RoundUnit
    IN  IF 2 * r < RoundUnit THEN q * RoundUnit
        ELSE IF 2 * r > RoundUnit THEN (q + 1) * RoundUnit
        ELSE IF q % 2 = 0 THEN q * RoundUnit ELSE (q + 1) * RoundUnit

\* n written with exactly `width` digits
RECURSIVE ZeroPad(_, _)
ZeroPad(n, width) ==
    IF width = 0 THEN ""
    ELSE ZeroPad(n \div 10, width - 1) \o ToString(n % 10)

\* the fraction digits of str(float): trailing zeros dropped, one digit kept
RECURSIVE Fraction(_, _)
Fraction(n, width) ==
    IF width > 1 /\ n % 10 = 0 THEN Fraction(n \div 10, width - 1)
    ELSE ZeroPad(n, width)

\* the digits of FloatScale after its leading 1
RECURSIVE DigitsOf(_)
DigitsOf(n) == IF n < 10 THEN 0 ELSE 1 + DigitsOf(n \div 10)

\* str(v) of a non-negative float
FloatStr(v) ==
    ToString(v \div FloatScale) \o "." \o Fraction(v % FloatScale, DigitsOf(FloatScale))

\* .astype(str) of a float64 column: 'nan' for a null cell
AsTypeStr(frame, column) ==
    [i \in Index(frame) |->
        IF i \in DOMAIN frame[column]
        THEN Str(FloatStr(frame[column][i].val))
        ELSE Str("nan")]

\* lines 268-269
FormatSelected(frame, prop) ==
    IF prop \in FloatColumns
    THEN LET rounded == SetColumn(frame, prop,
                 [i \in DOMAIN frame[prop] |-> Float(Round(frame[prop][i].val))])
         IN  SetColumn(frame, prop, AsTypeStr(rounded, prop))
    ELSE frame

-----------------------------------------------------------------------------
(* Input tables of the layout specification *)

AtomicNumbers == {1, 57, 58, 60}
Blocks == {"s", "d", "f"}
Periods == {1, 6, 7}
GroupIds == {1}

\* every frame with the rows `rows`, a block and a period in each row and a
\* group_id in some of them
RawFrames(rows) ==
    { [c \in {"atomic_number", "block", "period", "group_id"} |->
          CASE c = "atomic_number" -> [i \in rows |-> i]
            [] c = "block" -> b
            [] c = "period" -> p
            [] c = "group_id" -> g] :
        b \in [rows -> Blocks], p \in [rows -> Periods],
        g \in UNION {[grouped -> GroupIds] : grouped \in SUBSET rows} }

RowSets == {rows \in SUBSET AtomicNumbers :
               Cardinality(rows) >= 1 /\ Cardinality(rows) <= MaxRows}

Idle == [r \in {} |-> 0]

LayoutInit ==
    /\ elements \in UNION {RawFrames(rows) : rows \in RowSets}
    /\ prev = elements
    /\ napply = 0
    /\ df = Idle /\ df0 = Idle /\ outcome = "ok" /\ hist = <<>>
    /\ snapshot = Idle /\ store = Idle /\ ref = Idle /\ pc = Idle /\ req = Idle

\* one call of add_plot_columns on the frame, in place
AddPlotColumns ==
    /\ napply < MaxApply
    /\ prev' = elements
    /\ elements' = add_plot_columns(elements)
    /\ napply' = napply + 1
    /\ UNCHANGED <<libVars, serveVars>>

LayoutNext == AddPlotColumns

SpecLayout == LayoutInit /\ [][LayoutNext]_vars

-----------------------------------------------------------------------------
(* The frames of neutral.pkl: rows of the merged elements / series / groups *)
(* tables (get_neutral_data), laid out by add_plot_columns.                 *)

Catalogue ==
    1 :> [block |-> "s", period |-> 1, group_id |-> 1, series_id |-> 1,
          name_series |-> "Nonmetals", name_group |-> "Alkali metals",
          mass |-> "1.008"]
    @@ 3 :> [block |-> "s", period |-> 2, group_id |-> 1, series_id |-> 3,
          name_series |-> "Alkali metals", name_group |-> "Alkali metals",
          mass |-> "6.94"]
    @@ 58 :> [block |-> "f", period |-> 6, group_id |-> 0, series_id |-> 9,
          name_series |-> "Lanthanides", name_group |-> "",
          mass |-> "140.116"]

\* the rows of the catalogue that have a group (0 stands for no group)
Grouped(rows) == {i \in rows : Catalogue[i].group_id # 0}

\* hardness values: 3.0, 3.14159265, 3.5
HardnessValues == {300000000, 314159265, 350000000}

\* the frame of the rows `rows`, with hardness h in the rows of DOMAIN h
NeutralFrame(rows, h) ==
    [c \in {"atomic_number", "block", "period", "group_id", "series_id",
            "name_series", "name_group", "mass", "hardness"} |->
        CASE c = "atomic_number" -> [i \in rows |-> i]
          [] c = "group_id" -> [i \in Grouped(rows) |-> Catalogue[i].group_id]
          [] c = "name_group" -> [i \in Grouped(rows) |-> Catalogue[i].name_group]
          [] c = "mass" -> [i \in rows |-> Str(Catalogue[i].mass)]
          [] c = "hardness" -> [i \in DOMAIN h |-> Float(h[i])]
          [] OTHER -> [i \in rows |-> Catalogue[i][c]]]

NeutralRowSets == {rows \in SUBSET DOMAIN Catalogue :
                      Cardinality(rows) >= 1 /\ Cardinality(rows) <= MaxRows}

\* every assignment of hardness values to some of the rows
Hardnesses(rows) == UNION {[known -> HardnessValues] : known \in SUBSET rows}

Snapshots ==
    UNION {{add_plot_columns(NeutralFrame(rows, h)) : h \in Hardnesses(rows)} :
              rows \in NeutralRowSets}

-----------------------------------------------------------------------------
(* set_property and set_colors called on a frame, in any order *)

\* the colour-by values index() receives: its default, the entries of the
\* page's menu (get_category_names plus 'property'), and group_id
DefaultColorBy == "series_id"
OfferedColorBys == {"None", "block", "group_name", "period", "name_series",
                    "is_radioactive", "is_monoisotopic", "property"}
ColorBys == OfferedColorBys \cup {DefaultColorBy, "group_id"}

\* the modes tried as library calls: the five set_colors handles and one of
\* those it does not
LibColorBys == {"block", "period", "group_id", "series_id", "property",
                "name_series"}
CmapNames == {"viridis", "nosuchmap"}

LibInit ==
    /\ df \in Snapshots
    /\ df0 = df /\ prev = df
    /\ outcome = "ok" /\ hist = <<>>
    /\ elements = Idle /\ napply = 0
    /\ snapshot = Idle /\ store = Idle /\ ref = Idle /\ pc = Idle /\ req = Idle

\* a call of set_property(df, colname)
CallSetProperty ==
    /\ outcome = "ok" /\ Len(hist) < MaxCalls
    /\ \E colname \in PropertyNames :
          /\ df' = set_property(df, colname)
          /\ hist' = Append(hist, <<"set_property", colname, "">>)
    /\ prev' = df
    /\ UNCHANGED <<df0, outcome, elements, napply, serveVars>>

\* a call of set_colors(df, colorby, cmap); an exception ends the run
CallSetColors ==
    /\ outcome = "ok" /\ Len(hist) < MaxCalls
    /\ \E colorby \in LibColorBys, cmap \in CmapNames :
          LET got == set_colors(df, colorby, cmap)
          IN  /\ df' = got.frame
              /\ outcome' = got.status
              /\ hist' = Append(hist, <<"set_colors", colorby, cmap>>)
    /\ prev' = df
    /\ UNCHANGED <<df0, elements, napply, serveVars>>

LibNext == CallSetProperty \/ CallSetColors

SpecLib == LibInit /\ [][LibNext]_vars

-----------------------------------------------------------------------------
(* The request handlers of views.py.  A handler's variable `data` names a  *)
(* frame object; `store` holds the objects, `ref` the object each request  *)
(* names.  Object r is the one request r was given; object 0 would be an   *)
(* object shared by the process.                                           *)

Requests == 1 .. NumRequests

NoRequest == [route |-> "", prop |-> "", colorby |-> "", cmap |-> "", error |-> ""]

IndexQuery(prop, colorby, cmap) ==
    [route |-> "index", prop |-> prop, colorby |-> colorby, cmap |-> cmap,
     error |-> ""]

\* /correlations/ and /data/ take no parameter that reaches a derivation step
PlainQuery(route) == [NoRequest EXCEPT !.route = route]

\* every query of the three routes
AllQueries ==
    {IndexQuery(prop, colorby, cmap) :
        prop \in PropertyNames, colorby \in ColorBys, cmap \in CmapNames}
    \cup {PlainQuery("correlation"), PlainQuery("data")}

\* the queries of the interleaved runs
ServeQueries ==
    {IndexQuery("mass", "series_id", "viridis"),
     IndexQuery("hardness", "property", "viridis"),
     IndexQuery("hardness", "block", "nosuchmap"),
     PlainQuery("correlation"), PlainQuery("data")}

\* the frames of the interleaved runs: tables of MaxRows rows
ServeSnapshots ==
    {f \in Snapshots :
        /\ Cardinality(Index(f)) = MaxRows
        /\ \A i \in DOMAIN f["hardness"] : f["hardness"][i].val = 314159265}

\* get_data handing out one frame object kept by the process
get_data_cached(r, objects, pkl) ==
    [obj |-> 0,
     store |-> IF 0 \in DOMAIN objects THEN objects
               ELSE [o \in DOMAIN objects \cup {0} |->
                        IF o = 0 THEN pkl ELSE objects[o]]]

\* datautils.get_data: pd.read_pickle builds a new frame on every call
get_data(r, objects, pkl) ==
    [obj |-> r,
     store |-> [o \in DOMAIN objects \cup {r} |-> IF o = r THEN pkl ELSE objects[o]]]

\* the frame request r works on
Data(r) == store[ref[r]]

\* data = <frame> : the object `data` names is the one written (in place)
Write(r, frame) == [store EXCEPT ![ref[r]] = frame]

ServeInit(frames) ==
    /\ snapshot \in frames
    /\ store = Idle
    /\ ref = [r \in Requests |-> r]
    /\ pc = [r \in Requests |-> "idle"]
    /\ req = [r \in Requests |-> NoRequest]
    /\ elements = Idle /\ prev = Idle /\ napply = 0
    /\ df = Idle /\ df0 = Idle /\ outcome = "ok" /\ hist = <<>>

\* flask dispatches a request to its handler (views.py:247-256, 296-304, 387)
Receive(r, queries) ==
    /\ pc[r] = "idle"
    /\ \E q \in queries : req' = [req EXCEPT ![r] = q]
    /\ pc' = [pc EXCEPT ![r] = "received"]
    /\ UNCHANGED <<snapshot, store, ref, layoutVars, libVars>>

\* data = get_data() (views.py:258, 306, 390)
GetData(r) ==
    /\ pc[r] = "received"
    /\ LET got == get_data(r, store, snapshot)
       IN  /\ store' = got.store
           /\ ref' = [ref EXCEPT ![r] = got.obj]
    /\ pc' = [pc EXCEPT ![r] = "loaded"]
    /\ UNCHANGED <<snapshot, req, layoutVars, libVars>>

\* data = set_property(data, prop) (views.py:265)
SetProperty(r) ==
    /\ pc[r] = "loaded" /\ req[r].route = "index"
    /\ store' = Write(r, set_property(Data(r), req[r].prop))
    /\ pc' = [pc EXCEPT ![r] = "selected"]
    /\ UNCHANGED <<snapshot, ref, req, layoutVars, libVars>>

\* data = set_colors(data, colorby, cmap) (views.py:266); an exception
\* leaves the handler and flask answers 500
SetColors(r) ==
    /\ pc[r] = "selected"
    /\ LET got == set_colors(Data(r), req[r].colorby, req[r].cmap)
       IN  /\ store' = Write(r, got.frame)
           /\ pc' = [pc EXCEPT ![r] = IF got.status = "ok" THEN "coloured" ELSE "failed"]
           /\ req' = [req EXCEPT ![r].error = IF got.status = "ok" THEN "" ELSE got.status]
    /\ UNCHANGED <<snapshot, ref, layoutVars, libVars>>

\* views.py:268-269
Format(r) ==
    /\ pc[r] = "coloured"
    /\ store' = Write(r, FormatSelected(Data(r), req[r].prop))
    /\ pc' = [pc EXCEPT ![r] = "formatted"]
    /\ UNCHANGED <<snapshot, ref, req, layoutVars, libVars>>

\* the page is built from ColumnDataSource(data) (views.py:274-293, 346-384,
\* 398-413)
Render(r) ==
    /\ \/ pc[r] = "formatted"
       \/ pc[r] = "loaded" /\ req[r].route \in {"correlation", "data"}
    /\ pc' = [pc EXCEPT ![r] = "done"]
    /\ UNCHANGED <<snapshot, store, ref, req, layoutVars, libVars>>

\* the handler returns (or its exception is answered); its frame is dropped
Finish(r) ==
    /\ pc[r] \in {"done", "failed"}
    /\ pc' = [pc EXCEPT ![r] = "idle"]
    /\ req' = [req EXCEPT ![r] = NoRequest]
    /\ store' = [o \in DOMAIN store \ {r} |-> store[o]]
    /\ ref' = [ref EXCEPT ![r] = r]
    /\ UNCHANGED <<snapshot, layoutVars, libVars>>

Handle(r) ==
    \/ GetData(r)
    \/ SetProperty(r)
    \/ SetColors(r)
    \/ Format(r)
    \/ Render(r)
    \/ Finish(r)

\* one request at a time, every query
Init == ServeInit(Snapshots)

Next == Receive(1, AllQueries) \/ Handle(1)

Spec == Init /\ [][Next]_vars

\* requests interleaved at every step of their handlers
InterleavedInit == ServeInit(ServeSnapshots)

InterleavedNext == \E r \in Requests : Receive(r, ServeQueries) \/ Handle(r)

SpecServe == InterleavedInit /\ [][InterleavedNext]_vars

-----------------------------------------------------------------------------
(* Claims about layout derivation (SpecLayout) *)

Has(frame, col, i) == col \in DOMAIN frame /\ i \in DOMAIN frame[col]

\* the rows of the f-block band of a period
Band(frame, period) ==
    {i \in Index(frame) : frame["block"][i] = "f" /\ frame["period"][i] = period}

InBand(frame, i) == \E p \in {6, 7} : i \in Band(frame, p)

\* C1: after layout derivation every row has a non-null x and a non-null y,
\* also a row with a null group_id outside the f-block of periods 6 and 7.
C1_EveryRowPositioned ==
    napply >= 1 =>
        \A i \in Index(elements) : Has(elements, "x", i) /\ Has(elements, "y", i)

\* the formula of the band and of the main grid, row by row
LayoutFormula ==
    \A i \in Index(elements) :
        /\ \A p \in {6, 7} :
              i \in Band(elements, p) =>
                  /\ Has(elements, "x", i) /\ Has(elements, "y", i)
                  /\ \E m \in Band(elements, p) :
                        /\ \A j \in Band(elements, p) : m <= j
                        /\ elements["x"][i] = i - m + 3
                  /\ 2 * elements["y"][i] = (2 * p + 5) * Unit
        /\ (~InBand(elements, i) /\ i \in DOMAIN elements["group_id"]) =>
              /\ Has(elements, "x", i) /\ Has(elements, "y", i)
              /\ elements["x"][i] = elements["group_id"][i]
              /\ elements["y"][i] = elements["period"][i] * Unit

\* the x values of the period-6 band start at 3 and grow with atomic_number
Band6Ordered ==
    LET band == Band(elements, 6)
    IN  band # {} =>
          /\ \E i \in band : elements["x"][i] = 3
          /\ \A i \in band : elements["x"][i] >= 3 /\ 2 * elements["y"][i] = 17 * Unit
          /\ \A i, j \in band : i < j => elements["x"][i] < elements["x"][j]

\* the x values of the period-6 band are exactly 3, 4, ..., 3 + n - 1
Band6Contiguous ==
    LET band == Band(elements, 6)
    IN  {elements["x"][i] : i \in band} = 3 .. (2 + Cardinality(band))

\* the atomic numbers of the period-6 band have no gap
Band6NumbersContiguous ==
    LET band == Band(elements, 6)
    IN  \A i, j \in band : \A k \in i .. j : k \in band

\* C2 (as stated): band rows have x = atomic_number - min + 3 and y = p + 2.5,
\* other rows with a group_id have x = group_id and y = period, and the
\* period-6 band has the contiguous x values 3, 4, ... at y = 8.5.
C2_AsStated ==
    napply >= 1 => (LayoutFormula /\ Band6Ordered /\ Band6Contiguous)

\* C2 (amended): the same, with the x values of the period-6 band contiguous
\* when the atomic numbers of its rows are.
C2_BandAndGrid ==
    napply >= 1 =>
        /\ LayoutFormula
        /\ Band6Ordered
        /\ Band6NumbersContiguous => Band6Contiguous

\* H (group 1, period 1) at (1, 1) and Ce, alone in the period-6 band, at (3, 8.5)
C2_Witness ==
    /\ napply >= 1
    /\ Index(elements) = {1, 58}
    /\ elements["block"][1] = "s" /\ elements["period"][1] = 1
    /\ Has(elements, "group_id", 1) /\ elements["group_id"][1] = 1
    /\ elements["block"][58] = "f" /\ elements["period"][58] = 6
    /\ ~Has(elements, "group_id", 58)
    /\ elements["x"][1] = 1 /\ elements["y"][1] = Unit
    /\ elements["x"][58] = 3 /\ 2 * elements["y"][58] = 17 * Unit

LayoutColumns == {"x", "y", "y_symbol", "y_anumber", "y_name"}

\* C3: a second application of add_plot_columns leaves x, y, y_symbol,
\* y_anumber and y_name of every row as the first application left them.
C3_Idempotent ==
    napply >= 2 =>
        \A c \in LayoutColumns :
            c \in DOMAIN elements /\ c \in DOMAIN prev /\ elements[c] = prev[c]

\* a table with a period-7 band row and a grid row, laid out twice
C3_Witness ==
    /\ napply = 2
    /\ Band(elements, 7) # {}
    /\ \E i \in Index(elements) : ~InBand(elements, i) /\ Has(elements, "x", i)

-----------------------------------------------------------------------------
(* Claims about set_property and set_colors (SpecLib) *)

LastCall == hist[Len(hist)]

\* the column set_colors reads the colours from
ColourInput(colorby) == IF colorby = "block" THEN "temp" ELSE colorby

HandledColorBys == {"block", "period", "group_id", "series_id", "property"}

\* set_colors has just coloured the frame from a column with a value in it
JustColoured ==
    /\ hist # <<>> /\ outcome = "ok"
    /\ LastCall[1] = "set_colors" /\ LastCall[2] \in HandledColorBys
    /\ DOMAIN df[ColourInput(LastCall[2])] # {}

ColourValues == NumericValues(df, ColourInput(LastCall[2]))
ColourMin == MinOver(ColourValues, DOMAIN ColourValues)
ColourMax == MaxOver(ColourValues, DOMAIN ColourValues)

MinRowsAtStart ==
    \A i \in DOMAIN ColourValues :
        ColourValues[i] = ColourMin => df["color"][i] = "#440154"

MaxRowsAtEnd ==
    \A i \in DOMAIN ColourValues :
        ColourValues[i] = ColourMax => df["color"][i] = "#fde725"

\* C5 (as stated): the rows of the minimum get the start colour and the rows
\* of the maximum the end colour, also when minimum and maximum are equal.
C5_AsStated == JustColoured => (MinRowsAtStart /\ MaxRowsAtEnd)

\* C5 (amended): the rows of the minimum get the start colour; the rows of
\* the maximum get the end colour when the maximum is above the minimum, and
\* the start colour when all non-null values are equal.
C5_Endpoints ==
    JustColoured =>
        /\ MinRowsAtStart
        /\ ColourMin < ColourMax => MaxRowsAtEnd
        /\ ColourMin = ColourMax =>
              \A i \in DOMAIN ColourValues : df["color"][i] = "#440154"

\* a frame coloured from a column whose minimum is above 0 and below its maximum
C5_Witness ==
    /\ JustColoured
    /\ 0 < ColourMin /\ ColourMin < ColourMax
    /\ \E i \in Index(df) : df["color"][i] = "#fde725"

\* C7: after set_property(df, c) a row has a property value and a y_prop
\* exactly when c is non-null in it, then property = c's value and
\* y_prop = y + 0.35, and no other column is changed -- also on a frame on
\* which another property was selected before.
C7_PropertyExactlyWhereNonNull ==
    (hist # <<>> /\ outcome = "ok" /\ LastCall[1] = "set_property") =>
        LET c == LastCall[2]
        IN  /\ \A i \in Index(df) :
                  /\ Has(df, "property", i) <=> i \in DOMAIN df[c]
                  /\ Has(df, "y_prop", i) <=> i \in DOMAIN df[c]
                  /\ i \in DOMAIN df[c] =>
                        /\ df["property"][i] = df[c][i]
                        /\ df["y_prop"][i] = df["y"][i] + 35
            /\ \A k \in DOMAIN prev : k \notin {"property", "y_prop"} => df[k] = prev[k]

\* the two calls in the other order, on the frame the run started from
OtherOrder(colname, colorby, cmap) ==
    set_colors(set_property(df0, colname), colorby, cmap)

\* the run made set_colors first, and agrees with set_property first
ColoursFirstAgrees ==
    /\ (Len(hist) = 2 /\ hist[1][1] = "set_colors" /\ hist[2][1] = "set_property") =>
          LET other == OtherOrder(hist[2][2], hist[1][2], hist[1][3])
          IN  other.status = outcome /\ other.frame = df
    /\ (Len(hist) = 1 /\ hist[1][1] = "set_colors" /\ outcome # "ok") =>
          \A colname \in PropertyNames :
              OtherOrder(colname, hist[1][2], hist[1][3]).status = outcome

\* C10 (as stated): set_colors then set_property gives the frame and the
\* outcome of set_property then set_colors, for every mode.
C10_AsStated == ColoursFirstAgrees

\* C10 (amended): the same for every mode but 'property', whose colours are
\* read from the column set_property writes.
C10_OrderIndependent ==
    (hist # <<>> /\ hist[1][2] # "property") => ColoursFirstAgrees

\* set_colors (by block) then set_property (hardness, with a null row)
C10_Witness ==
    /\ Len(hist) = 2 /\ outcome = "ok"
    /\ hist[1] = <<"set_colors", "block", "viridis">>
    /\ hist[2] = <<"set_property", "hardness", "">>
    /\ DOMAIN df["property"] # {} /\ DOMAIN df["property"] # Index(df)
    /\ DOMAIN df["color"] = Index(df)

-----------------------------------------------------------------------------
(* Claims about a periodic-table request (Spec) *)

\* the handler of r has returned from set_colors
AfterColouring(r) ==
    req[r].route = "index" /\ pc[r] \in {"coloured", "formatted", "done"}

\* C4: after set_colors, for every colour-by value the page offers or
\* defaults to, every row has one colour, a 7-character hex string, and the
\* rows whose colour input is null have the fallback colour.
C4_EveryRowColoured ==
    \A r \in Requests :
        (AfterColouring(r) /\ req[r].colorby \in OfferedColorBys \cup {DefaultColorBy}) =>
            /\ "color" \in DOMAIN Data(r)
            /\ DOMAIN Data(r)["color"] = Index(Data(r))
            /\ \A i \in Index(Data(r)) :
                  /\ Len(Data(r)["color"][i]) = 7
                  /\ (/\ req[r].colorby \in HandledColorBys
                      /\ i \notin DOMAIN Data(r)[ColourInput(req[r].colorby)])
                        => Data(r)["color"][i] = "#ffffff"

\* the value with exactly four decimals
Fixed4(v) ==
    ToString(Round(v) \div FloatScale) \o "."
        \o ZeroPad((Round(v) % FloatScale) \div RoundUnit, 4)

\* the text the glyph of line 172 draws for a row: the cell of `property`,
\* a number written as the browser writes it; nothing for a null cell
LabelText(frame, i) ==
    IF ~Has(frame, "property", i) THEN ""
    ELSE IF frame["property"][i].dtype = "object" THEN frame["property"][i].val
    ELSE IF frame["property"][i].val % FloatScale = 0
         THEN ToString(frame["property"][i].val \div FloatScale)
         ELSE FloatStr(frame["property"][i].val)

\* C6: the property label of a row shows "" for a null value, the value with
\* four decimals for a floating-point column (3.14159265 gives "3.1416") and
\* the plain string of a non-numeric column.
C6_LabelIsFormatted ==
    \A r \in Requests :
        (req[r].route = "index" /\ pc[r] \in {"formatted", "done"}) =>
            \A i \in Index(snapshot) :
                LabelText(Data(r), i) =
                    IF i \notin DOMAIN snapshot[req[r].prop] THEN ""
                    ELSE IF req[r].prop \in FloatColumns
                         THEN Fixed4(snapshot[req[r].prop][i].val)
                         ELSE snapshot[req[r].prop][i].val

\* C8: a request whose colour scale is not registered fails with the
\* unknown-colormap error in every colour-by mode, and nothing is rendered.
C8_UnknownCmapFails ==
    \A r \in Requests :
        (/\ req[r].route = "index"
         /\ req[r].cmap \notin RegisteredCmaps
         /\ pc[r] \notin {"idle", "received", "loaded", "selected"})
            => pc[r] = "failed" /\ req[r].error = "ValueError"

-----------------------------------------------------------------------------
(* Claims about interleaved requests (SpecServe) *)

\* the frame the handler of r has derived so far, from the snapshot alone
Derived(r) ==
    LET selected == set_property(snapshot, req[r].prop)
        coloured == set_colors(selected, req[r].colorby, req[r].cmap).frame
    IN  CASE req[r].route # "index" -> snapshot
          [] pc[r] = "loaded" -> snapshot
          [] pc[r] = "selected" -> selected
          [] pc[r] \in {"coloured", "failed"} -> coloured
          [] OTHER -> FormatSelected(coloured, req[r].prop)

Holding(r) == pc[r] \notin {"idle", "received"}

\* every request in flight works on a frame of its own, derived from the
\* snapshot by its own steps only
Isolated ==
    /\ \A r \in Requests :
          Holding(r) => (ref[r] \in DOMAIN store /\ Data(r) = Derived(r))
    /\ \A r1, r2 \in Requests :
          (r1 # r2 /\ Holding(r1) /\ Holding(r2)) => ref[r1] # ref[r2]

\* C9: under every interleaving each request derives its columns on its own
\* copy of the table, sees no column value another request wrote, and no
\* step writes the snapshot.
C9_RequestsIsolated == [][snapshot' = snapshot]_vars /\ []Isolated

\* two periodic-table requests in flight, each past set_property, with
\* different selected properties in their frames
C9_Witness ==
    /\ pc[1] \in {"selected", "coloured"} /\ pc[2] \in {"selected", "coloured"}
    /\ req[1].prop = "mass" /\ req[2].prop = "hardness"
    /\ DOMAIN Data(2)["property"] # {}
    /\ \A i \in DOMAIN Data(2)["property"] :
          Data(1)["property"][i] # Data(2)["property"][i]

====
